---- MODULE Spec2Model ----
(***************************************************************************)
(* Model of codes/tmp/run.py: the training orchestrator main() of the      *)
(* knowledge-graph embedding trainer, with save_model and override_config. *)
(* One behaviour is one process run of main() (and, after it has exited,   *)
(* at most one further run that resumes from the checkpoint directory the  *)
(* first run left on disk).                                                *)
(*                                                                         *)
(* Encodings.  None is the string "None" for strings and -1 for integers.  *)
(* Floating-point values are fixed-point integers: a subsampling weight is *)
(* in hundredths (100 is 1.0), a learning rate is in units of 1e-10.       *)
(* A triple is <<head, relation, tail>>.  A dict keyed by triples is a     *)
(* function whose DOMAIN is the key set.  A Python object reference to a   *)
(* weight table is the name of the table in the heap `tables`.             *)
(***************************************************************************)
EXTENDS Integers, Sequences, FiniteSets, TLC

\* ------------------------------------------------------------ bounds
\* Number of steps of a long run: reaches the second detour at step 10001.
MaxSteps == 10003
\* max_steps of the short runs ranges over 0..SmallSteps.
SmallSteps == 3
\* Number of entities in the vocabulary (ids 0..NEntity-1).
NEntity == 3
\* args.negative_sample_size of the sampled batches.
NegativeSampleSize == 1
\* Longest line of a vocabulary file, and the most lines of one.
\* Longest training run of the learning-rate schedule.
MaxSchedSteps == 10
MaxLineLen == 3
MaxLines == 3

\* ------------------------------------------------- program constants
RefreshInterval == 10001
GANEpochs == 200
ClfTrainNum == 200
WarmupEpochs == 1200
NumPinSoft == 1
NumPinHard == 1000
LrDecay == 10
WarmupGrowth == 3
InitialWeight == 100
LearningRate == 1000000

VARIABLES
    args,               \* the argparse namespace
    pc,                 \* position of the main thread in main()
    err,                \* why the process ended ("none" while it runs)
    disk,               \* the checkpoint directory (save_path / init_checkpoint)
    data,               \* the files under data_path
    io,                 \* file-system effects of this run so far
    ckpt_reads,         \* torch.load calls of this run
    nsaves,             \* checkpoints written by this run
    train_triples, fake_triples, all_true_triples,
    ds,                 \* the TrainDataset objects, by variable name
    tables,             \* heap of subsampling weight tables
    classifier, generator, clf_iterator,
    current_learning_rate, warm_up_steps, init_step, step, model_state,
    loaded,             \* the checkpoint torch.load returned
    soft, epoch,
    calls,              \* sub-step calls made in the current loop iteration
    warm_calls,         \* train_classifier_step calls of the warm-up phase
    main_steps,         \* main training steps completed in this run
    soft_hist,          \* the soft flags passed to find_topK_triples in the loop
    table_writes,       \* who wrote a weight table, and in which phase
    batch,              \* the last sample a data-loader worker produced
    restarted,          \* TRUE in the run that resumes from the first run's disk
    entity2id,          \* the vocabulary being loaded, name -> id
    nentity,            \* len(entity2id), once the file is read
    nlines              \* lines of the vocabulary file read so far

vars == <<args, pc, err, disk, data, io, ckpt_reads, nsaves,
          train_triples, fake_triples, all_true_triples, ds, tables,
          classifier, generator, clf_iterator,
          current_learning_rate, warm_up_steps, init_step, step, model_state,
          loaded, soft, epoch, calls, warm_calls, main_steps, soft_hist,
          table_writes, batch, restarted, entity2id, nentity, nlines>>

vocab == <<entity2id, nentity, nlines>>
cfg == <<args, data, restarted, vocab>>
files == <<disk, io, ckpt_reads, nsaves>>
dsvars == <<train_triples, fake_triples, all_true_triples, ds, tables,
            classifier, generator, clf_iterator>>
trainvars == <<current_learning_rate, warm_up_steps, init_step, step, model_state,
               loaded>>
loopvars == <<soft, epoch, calls, warm_calls, main_steps, soft_hist>>

\* What lives in process memory (lost when the process ends), with the
\* observations made of the live process.
mem == <<dsvars, trainvars, loopvars, table_writes, batch>>

None == "None"
NoneInt == -1

\* ------------------------------------------------------------ inputs
Entities == 0 .. (NEntity - 1)
Triples == Entities \X {0} \X Entities

RECURSIVE Repeat(_, _)
Repeat(x, n) == IF n = 0 THEN <<>> ELSE <<x>> \o Repeat(x, n - 1)

Range(s) == {s[i] : i \in DOMAIN s}

\* The data directory: train.txt, valid.txt, test.txt and fake<TAG>.pkl, as
\* lists of id triples (the vocabulary maps names to ids one to one here).
PlainData ==
    [train |-> Repeat(<<0, 0, 1>>, 10), valid |-> <<<<1, 0, 2>>>>,
     test  |-> <<<<2, 0, 0>>>>, fake |-> <<<<0, 0, 2>>>>]

MixedData ==
    [train |-> Repeat(<<0, 0, 1>>, 9) \o <<<<1, 0, 1>>>>, valid |-> <<<<0, 0, 2>>>>,
     test  |-> <<<<2, 0, 1>>>>, fake |-> <<<<0, 0, 0>>, <<1, 0, 1>>>>]

Methods == {None, "clf", "KBGAN"}

BaseArgs ==
    [do_train |-> TRUE, do_valid |-> FALSE, do_test |-> FALSE,
     init_checkpoint |-> None, data_path |-> "data", save_path |-> "dir",
     method |-> None, num |-> 1, model |-> "TransE", fake |-> None,
     max_steps |-> 1, warm_up_steps |-> NoneInt, save_checkpoint_steps |-> 1,
     no_save |-> FALSE, uni_weight |-> FALSE, learning_rate |-> LearningRate]

\* Every combination of mode flags, paths and method, one step long.
ModeArgs ==
    {[BaseArgs EXCEPT !.do_train = f[1], !.do_valid = f[2], !.do_test = f[3],
                      !.init_checkpoint = ic, !.data_path = dp, !.save_path = sp,
                      !.method = m] :
        f \in BOOLEAN \X BOOLEAN \X BOOLEAN, ic \in {None, "dir"},
        dp \in {None, "data"}, sp \in {None, "dir"}, m \in Methods}

\* Short training runs over schedule and checkpoint options.
ShortArgs ==
    {[BaseArgs EXCEPT !.method = m, !.max_steps = ms, !.warm_up_steps = w,
                      !.save_checkpoint_steps = scs, !.no_save = ns] :
        m \in Methods, ms \in 0 .. SmallSteps, w \in {NoneInt, 0, 1},
        scs \in {1, 2}, ns \in BOOLEAN}

\* Runs with injected fake triples, trained and tested.
FakeArgs ==
    {[BaseArgs EXCEPT !.method = m, !.fake = "1", !.uni_weight = u, !.do_test = TRUE] :
        m \in Methods, u \in BOOLEAN}

\* Long training runs, one per method and repeat count, not saved.
LongArgs ==
    {[BaseArgs EXCEPT !.method = m, !.num = n, !.max_steps = MaxSteps,
                      !.save_checkpoint_steps = RefreshInterval - 1,
                      !.no_save = TRUE] :
        m \in Methods, n \in {NumPinSoft, 2, NumPinHard}}

\* Fresh training runs over warm-up thresholds, long enough to decay the
\* learning rate several times, not saved.
ScheduleArgs ==
    {[BaseArgs EXCEPT !.method = m, !.max_steps = ms, !.warm_up_steps = w,
                      !.save_checkpoint_steps = MaxSchedSteps, !.no_save = TRUE] :
        m \in Methods, ms \in 0 .. MaxSchedSteps, w \in {NoneInt} \cup (0 .. SmallSteps)}

\* A scoring family the detour has no branch for.
OtherModelArgs ==
    {[BaseArgs EXCEPT !.method = "clf", !.model = md, !.no_save = TRUE] :
        md \in {"RotatE", "DistMult", "ComplEx"}}

NoCheckpoint ==
    [exists |-> FALSE, step |-> 0, current_learning_rate |-> 0, warm_up_steps |-> 0,
     has_confidence |-> FALSE, confidence |-> <<>>, model_state_dict |-> 0,
     has_classifier |-> FALSE, has_generator |-> FALSE]

EmptyDisk ==
    [dir |-> FALSE, log |-> FALSE, has_config |-> FALSE, config |-> BaseArgs,
     checkpoint |-> NoCheckpoint]

NoDatasets == <<>>
NoBatch == [dataset |-> None, positive |-> <<>>, negative |-> <<>>]
NoCalls == [refresh |-> 0, gan |-> 0, clf |-> 0]

\* Process memory before main() has assigned anything.
FreshMemory ==
    /\ train_triples = <<>> /\ fake_triples = <<>> /\ all_true_triples = <<>>
    /\ ds = NoDatasets /\ tables = <<>>
    /\ classifier = None /\ generator = None /\ clf_iterator = FALSE
    /\ current_learning_rate = 0 /\ warm_up_steps = 0
    /\ init_step = 0 /\ step = 0 /\ model_state = 0
    /\ loaded = NoCheckpoint /\ soft = FALSE /\ epoch = 0
    /\ calls = NoCalls /\ batch = NoBatch
    /\ warm_calls = 0 /\ main_steps = 0 /\ soft_hist = <<>> /\ table_writes = {}

FreshObs ==
    /\ io = {} /\ ckpt_reads = 0 /\ nsaves = 0

NoVocab ==
    /\ entity2id = <<>> /\ nentity = 0 /\ nlines = 0

InitWith(A, D) ==
    /\ args \in A /\ data \in D
    /\ pc = "start" /\ err = "none" /\ disk = EmptyDisk /\ restarted = FALSE
    /\ FreshMemory /\ FreshObs /\ NoVocab

Init ==
    InitWith(ModeArgs \cup ShortArgs \cup FakeArgs \cup LongArgs \cup OtherModelArgs
                 \cup ScheduleArgs,
             {PlainData})

\* ------------------------------------------------------- process end
ClearMemory ==
    /\ train_triples' = <<>> /\ fake_triples' = <<>> /\ all_true_triples' = <<>>
    /\ ds' = NoDatasets /\ tables' = <<>>
    /\ classifier' = None /\ generator' = None /\ clf_iterator' = FALSE
    /\ current_learning_rate' = 0 /\ warm_up_steps' = 0
    /\ init_step' = 0 /\ step' = 0 /\ model_state' = 0
    /\ loaded' = NoCheckpoint /\ soft' = FALSE /\ epoch' = 0
    /\ calls' = NoCalls /\ batch' = NoBatch
    /\ warm_calls' = 0 /\ main_steps' = 0 /\ soft_hist' = <<>> /\ table_writes' = {}

\* The process ends (an uncaught exception, exit(), or the end of main):
\* its memory is gone, the disk and what the run did to it remain.
Terminate(e) ==
    /\ pc' = "exited" /\ err' = e
    /\ ClearMemory

Running == pc # "exited"

\* ------------------------------------------------------ configuration
\* override_config: the saved config.json replaces model and data options,
\* and method and save_path too unless this run trains.
override_config(a, c) ==
    [a EXCEPT !.data_path = IF a.data_path = None THEN c.data_path ELSE @,
              !.model = c.model,
              !.fake = c.fake,
              !.method = IF ~a.do_train THEN c.method ELSE @,
              !.save_path = IF ~a.do_train THEN c.save_path ELSE @]

\* The last flag is tested without its `not`.
NoModeSelectedTypo(a) == (~a.do_train) /\ (~a.do_valid) /\ a.do_test

\* Line 207.
NoModeSelected(a) == (~a.do_train) /\ (~a.do_valid) /\ (~a.do_test)

\* main, lines 207-208.
CheckMode ==
    /\ pc = "start"
    /\ IF NoModeSelected(args)
       THEN Terminate("ValueError: mode")
       ELSE pc' = "config" /\ UNCHANGED <<err, mem>>
    /\ UNCHANGED <<cfg, files>>

\* main, lines 210-213.
LoadConfig ==
    /\ pc = "config"
    /\ IF args.init_checkpoint # None
       THEN IF disk.has_config
            THEN /\ args' = override_config(args, disk.config)
                 /\ io' = io \cup {"read config.json"}
                 /\ pc' = "savecheck"
                 /\ UNCHANGED <<err, mem>>
            ELSE /\ Terminate("FileNotFoundError")
                 /\ UNCHANGED <<args, io>>
       ELSE IF args.data_path = None
            THEN /\ Terminate("ValueError: data_path")
                 /\ UNCHANGED <<args, io>>
            ELSE /\ pc' = "savecheck"
                 /\ UNCHANGED <<args, io, err, mem>>
    /\ UNCHANGED <<data, restarted, vocab, disk, ckpt_reads, nsaves>>

\* The save path is only demanded of a run that does not resume.
SavePathMissingFresh(a) == a.do_train /\ a.save_path = None /\ a.init_checkpoint = None

\* Line 215.
SavePathMissing(a) == a.do_train /\ a.save_path = None

\* main, lines 215-216.
CheckSavePath ==
    /\ pc = "savecheck"
    /\ IF SavePathMissing(args)
       THEN Terminate("ValueError: save_path")
       ELSE pc' = "logger" /\ UNCHANGED <<err, mem>>
    /\ UNCHANGED <<cfg, files>>

\* os.makedirs(args.save_path) when the directory is missing (lines 218-219).
MakeDirs(d, a) ==
    IF a.save_path # None /\ ~d.dir THEN [d EXCEPT !.dir = TRUE] ELSE d

MakeDirsIO(d, a) ==
    IF a.save_path # None /\ ~d.dir THEN {"makedirs"} ELSE {}

\* main, lines 218-222, with set_logger: the log file is opened for writing
\* in save_path, or in init_checkpoint when there is no save_path.
SetLogger ==
    /\ pc = "logger"
    /\ IF args.save_path = None /\ args.init_checkpoint = None
       THEN /\ Terminate("TypeError")
            /\ UNCHANGED <<disk, io>>
       ELSE /\ disk' = [MakeDirs(disk, args) EXCEPT !.log = TRUE]
            /\ io' = io \cup MakeDirsIO(disk, args) \cup {"write log"}
            /\ pc' = "load"
            /\ UNCHANGED <<err, mem>>
    /\ UNCHANGED <<cfg, ckpt_reads, nsaves>>

\* set_logger, lines 179-182: the log file exists and the user answers "n".
DeclineOverwrite ==
    /\ pc = "logger"
    /\ ~(args.save_path = None /\ args.init_checkpoint = None)
    /\ disk.log
    /\ Terminate("exit(0)")
    /\ disk' = MakeDirs(disk, args)
    /\ io' = io \cup MakeDirsIO(disk, args)
    /\ UNCHANGED <<cfg, ckpt_reads, nsaves>>

\* ------------------------------------------------------------- data
\* main, lines 224-263: vocabularies and triple files are read; the fake
\* triples are appended to the training triples when a tag is given.
LoadData ==
    /\ pc = "load"
    /\ io' = io \cup {"read entities.dict", "read relations.dict", "read train",
                      "read valid.txt", "read test.txt"}
                \cup (IF args.fake # None THEN {"read fake"} ELSE {})
    /\ train_triples' = data.train \o (IF args.fake # None THEN data.fake ELSE <<>>)
    /\ fake_triples' = IF args.fake # None THEN data.fake ELSE <<<<0, 0, 0>>>>
    /\ all_true_triples' = train_triples' \o data.valid \o data.test
    /\ pc' = "datasets"
    /\ UNCHANGED <<cfg, err, disk, ckpt_reads, nsaves, ds, tables, classifier,
                   generator, clf_iterator, trainvars, loopvars, table_writes, batch>>

\* TrainDataset(triples, nentity, nrelation, negative_sample_size, mode):
\* keeps the triples, indexes them as the true heads and tails, and owns a
\* weight table of its own (named after the dataset).
TrainDataset(triples, mode, name) ==
    [triples |-> triples, mode |-> mode,
     true_head |-> Range(triples), true_tail |-> Range(triples),
     subsampling_weights |-> name]

\* Frequency subsampling: a triple's weight shrinks with its count.
InitWeightsByCount(triples) ==
    [t \in Range(triples) |->
        InitialWeight \div Cardinality({i \in DOMAIN triples : triples[i] = t})]

\* Lines 284-285: every triple of the dataset gets the weight 1.0.
InitWeights(triples) == [t \in Range(triples) |-> InitialWeight]

\* A private table per dataset instead of the shared one.
ShareWeightsPrivate(d, from) == d

\* Lines 286, 315-316, 340-341: d.subsampling_weights = from.subsampling_weights.
ShareWeights(d, from) ==
    [d EXCEPT !.subsampling_weights = from.subsampling_weights]

\* The dataset keeps the index built from its own triples.
ShareTrueIndexOwn(d, from) == d

\* Lines 313-314, 338-339: d.true_head, d.true_tail = from.true_head, from.true_tail.
ShareTrueIndex(d, from) ==
    [d EXCEPT !.true_head = from.true_head, !.true_tail = from.true_tail]

\* random.sample(population, k): k entries at distinct positions, in any order.
RandomSample(population, k) ==
    {[i \in 1 .. k |-> population[f[i]]] :
        f \in {g \in [1 .. k -> DOMAIN population] :
                 \A i, j \in 1 .. k : i # j => g[i] # g[j]}}

AuxNames == {"clf_head", "clf_tail", "gen_head", "gen_tail"}

AuxMode(n) == IF n \in {"clf_head", "gen_head"} THEN "head-batch" ELSE "tail-batch"

\* main, lines 265-387: the model, the datasets and their loaders, and the
\* classifier and generator of the method.
SetupDatasets ==
    /\ pc = "datasets"
    /\ \E clf_triples \in RandomSample(train_triples, Len(train_triples) \div 10) :
        LET head == TrainDataset(train_triples, "head-batch", "train_head")
            tail == ShareWeights(TrainDataset(train_triples, "tail-batch", "train_tail"),
                                 head)
            aux(n) == ShareWeights(
                          ShareTrueIndex(TrainDataset(clf_triples, AuxMode(n), n),
                                         IF AuxMode(n) = "head-batch" THEN head ELSE tail),
                          head)
            withAux == args.method = "clf" \/ args.method = None
            names == {"train_head", "train_tail"} \cup (IF withAux THEN AuxNames ELSE {})
        IN  /\ ds' = [n \in names |->
                        IF n = "train_head" THEN head
                        ELSE IF n = "train_tail" THEN tail ELSE aux(n)]
            /\ tables' = [n \in names |->
                            IF n = "train_head" THEN InitWeights(head.triples)
                            ELSE <<>>]
            /\ classifier' = IF withAux THEN "SimpleNN" ELSE None
            /\ generator' = IF withAux THEN "SimpleNN"
                            ELSE IF args.method = "KBGAN" THEN "KGEModel" ELSE None
            /\ clf_iterator' = withAux
    /\ pc' = "trainconf"
    /\ UNCHANGED <<cfg, err, files, train_triples, fake_triples, all_true_triples,
                   trainvars, loopvars, table_writes, batch>>

\* --------------------------------------------------- training set-up
\* Python truth value of an optional integer option.
Truthy(n) == n # NoneInt /\ n # 0

\* Line 404 (and 413): the step the loop starts from.
RestoreStep(checkpoint) == 0

\* Lines 395-398 and 406-408: the warm-up threshold of this run.
RestoreWarmUp(a, checkpoint) ==
    IF a.init_checkpoint # None /\ a.do_train
    THEN checkpoint.warm_up_steps
    ELSE IF Truthy(a.warm_up_steps) THEN a.warm_up_steps ELSE a.max_steps

\* The warm-up also runs on a fresh start.
WarmupDueAlways(a) == a.method = "clf"

\* Line 430: the classifier warm-up runs when resuming in 'clf' mode.
WarmupDue(a) == a.method = "clf" /\ a.init_checkpoint # None

\* main, lines 390-442 up to the warm-up loop: learning rate, warm-up
\* threshold, and the checkpoint of init_checkpoint when there is one.
SetupTraining ==
    /\ pc = "trainconf"
    /\ IF args.init_checkpoint # None /\ ~disk.checkpoint.exists
       THEN /\ Terminate("FileNotFoundError")
            /\ UNCHANGED <<io, ckpt_reads>>
       ELSE /\ current_learning_rate' = args.learning_rate
            /\ IF args.init_checkpoint # None
               THEN /\ loaded' = disk.checkpoint
                    /\ ckpt_reads' = ckpt_reads + 1
                    /\ io' = io \cup {"read checkpoint"}
                    /\ model_state' = disk.checkpoint.model_state_dict
               ELSE /\ model_state' = 0
                    /\ UNCHANGED <<loaded, ckpt_reads, io>>
            /\ warm_up_steps' = RestoreWarmUp(args, disk.checkpoint)
            /\ init_step' = RestoreStep(disk.checkpoint)
            /\ step' = init_step'
            /\ pc' = IF args.do_train
                     THEN IF WarmupDue(args) THEN "warmup" ELSE "train_start"
                     ELSE "valid"
            /\ UNCHANGED <<err, dsvars, loopvars, table_writes, batch>>
    /\ UNCHANGED <<cfg, disk, nsaves>>

\* One iteration of the warm-up loop, lines 435-441.
WarmupStep ==
    /\ pc = "warmup"
    /\ IF classifier = None \/ ~clf_iterator
       THEN Terminate("AttributeError")
       ELSE /\ warm_calls' = warm_calls + 1
            /\ epoch' = IF epoch + 1 = WarmupEpochs THEN 0 ELSE epoch + 1
            /\ pc' = IF epoch + 1 = WarmupEpochs THEN "train_start" ELSE "warmup"
            /\ UNCHANGED <<err, dsvars, trainvars, soft, calls, main_steps, soft_hist,
                           table_writes, batch>>
    /\ UNCHANGED <<cfg, files>>

\* The loop also runs the index max_steps.
InRangeInclusive(s, a) == s <= a.max_steps

\* Line 450: s is an index of range(init_step, args.max_steps) (s >= init_step).
InRange(s, a) == s < a.max_steps

\* Lines 444-450: the loop is entered; `for step in range(init_step, max_steps)`
\* leaves step alone when the range is empty.
StartLoop ==
    /\ pc = "train_start"
    /\ soft' = FALSE
    /\ IF InRange(init_step, args)
       THEN step' = init_step /\ pc' = "loop"
       ELSE step' = step /\ pc' = "final"
    /\ UNCHANGED <<cfg, err, files, dsvars, current_learning_rate, warm_up_steps,
                   init_step, model_state, loaded, epoch, calls, warm_calls,
                   main_steps, soft_hist, table_writes, batch>>

\* ------------------------------------------------------------ detour
\* The detour is skipped at step 0.
RefreshDueLate == args.method = "clf" /\ step % RefreshInterval = 0 /\ step > 0

\* Line 451.
RefreshDue == args.method = "clf" /\ step % RefreshInterval = 0

\* The flag is toggled whatever the repeat count.
NextSoftToggle(num, s) == ~s

\* Lines 452-457.
NextSoft(num, s) ==
    IF num = NumPinSoft THEN TRUE
    ELSE IF num = NumPinHard THEN FALSE
    ELSE ~s

\* The confidences the classifier assigns (hundredths).
Confidences == {0, 100}

\* classifier.find_topK_triples: the new content of the shared weight table.
\* Soft mode blends each weight with the confidence, hard mode cuts at 0.5.
find_topK_triples(table, softmode, conf) ==
    [t \in DOMAIN table |->
        IF softmode THEN (table[t] + conf) \div 2
        ELSE IF conf >= 50 THEN 100 ELSE 0]

\* The table train_iterator.dataloader_head.dataset.subsampling_weights names.
TrainTable == ds["train_head"].subsampling_weights

ScoredModels == {"RotatE", "DistMult", "TransE"}

\* Lines 451-472: the soft flag, the fake score, and the weight refresh.
DetourRefresh ==
    /\ pc = "loop"
    /\ RefreshDue
    /\ IF classifier = None \/ ~clf_iterator
       THEN Terminate("AttributeError")
       ELSE IF args.model \notin ScoredModels
       THEN Terminate("NameError")
       ELSE /\ soft' = NextSoft(args.num, soft)
            /\ \E conf \in Confidences :
                 tables' = [tables EXCEPT
                              ![TrainTable] = find_topK_triples(@, soft', conf)]
            /\ table_writes' = table_writes \cup {[by |-> "main", phase |-> pc]}
            /\ soft_hist' = Append(soft_hist, soft')
            /\ calls' = [NoCalls EXCEPT !.refresh = 1]
            /\ epoch' = 0
            /\ pc' = "gan"
            /\ UNCHANGED <<err, train_triples, fake_triples, all_true_triples, ds,
                           classifier, generator, clf_iterator, trainvars,
                           warm_calls, main_steps, batch>>
    /\ UNCHANGED <<cfg, files>>

\* One iteration of the GAN sub-loop, lines 473-474.
GANStep ==
    /\ pc = "gan"
    /\ calls' = [calls EXCEPT !.gan = @ + 1]
    /\ epoch' = IF epoch + 1 = GANEpochs THEN 0 ELSE epoch + 1
    /\ pc' = IF epoch + 1 = GANEpochs THEN "clf" ELSE "gan"
    /\ UNCHANGED <<cfg, err, files, dsvars, trainvars, soft, warm_calls, main_steps,
                   soft_hist, table_writes, batch>>

\* One iteration of the classifier refresh, lines 476-480.
ClassifierStep ==
    /\ pc = "clf"
    /\ calls' = [calls EXCEPT !.clf = @ + 1]
    /\ epoch' = IF epoch + 1 = ClfTrainNum THEN 0 ELSE epoch + 1
    /\ pc' = IF epoch + 1 = ClfTrainNum THEN "step" ELSE "clf"
    /\ UNCHANGED <<cfg, err, files, dsvars, trainvars, soft, warm_calls, main_steps,
                   soft_hist, table_writes, batch>>

\* --------------------------------------------------------- main step
\* The weight refresh is run inside the step that has begun.
TrainBeginRefreshing ==
    /\ pc \in {"loop", "step"}
    /\ pc = "loop" => ~RefreshDue
    /\ pc' = "train"
    /\ \E conf \in Confidences :
         tables' = [tables EXCEPT ![TrainTable] = find_topK_triples(@, soft, conf)]
    /\ table_writes' = table_writes \cup {[by |-> "main", phase |-> pc']}
    /\ UNCHANGED <<cfg, err, files, train_triples, fake_triples, all_true_triples,
                   ds, classifier, generator, clf_iterator, trainvars, loopvars,
                   batch>>

\* Lines 488-491: the main training step is entered (train_step, or
\* train_GAN_step under KBGAN) and fetches its batch.
TrainBegin ==
    /\ pc \in {"loop", "step"}
    /\ pc = "loop" => ~RefreshDue
    /\ pc' = "train"
    /\ UNCHANGED <<cfg, err, files, mem>>

\* The rate decays one step after the threshold.
DecayDueAfter(s, w) == s > w

\* Line 495.
DecayDue(s, w) == s >= w

\* A checkpoint is written at every step.
SaveDueAlways(s, a) == TRUE

\* Line 504.
SaveDue(s, a) == s % a.save_checkpoint_steps = 0

\* Lines 505-511 and 525-531: what is saved beside the parameters.
SaveVariableList(a, s, lr, wus) ==
    [step |-> s, current_learning_rate |-> lr, warm_up_steps |-> wus,
     has_confidence |-> a.method # None,
     confidence |-> IF a.method # None THEN tables[TrainTable] ELSE <<>>]

\* save_model: config.json and the checkpoint file, unless no_save.
save_model(d, a, model, svl, clf, gen) ==
    IF a.no_save THEN d
    ELSE [d EXCEPT !.has_config = TRUE, !.config = a,
                   !.checkpoint =
                       [exists |-> TRUE, step |-> svl.step,
                        current_learning_rate |-> svl.current_learning_rate,
                        warm_up_steps |-> svl.warm_up_steps,
                        has_confidence |-> svl.has_confidence,
                        confidence |-> svl.confidence,
                        model_state_dict |-> model,
                        has_classifier |-> clf # None,
                        has_generator |-> gen # None]]

\* Lines 491-524: the step's parameter update, the learning-rate schedule,
\* the periodic checkpoint, and the advance of the for loop.
TrainEnd ==
    /\ pc = "train"
    /\ model_state' = model_state + 1
    /\ main_steps' = main_steps + 1
    /\ IF DecayDue(step, warm_up_steps)
       THEN /\ current_learning_rate' = current_learning_rate \div LrDecay
            /\ warm_up_steps' = warm_up_steps * WarmupGrowth
       ELSE UNCHANGED <<current_learning_rate, warm_up_steps>>
    /\ IF SaveDue(step, args)
       THEN /\ disk' = save_model(disk, args, model_state',
                                  SaveVariableList(args, step, current_learning_rate',
                                                   warm_up_steps'),
                                  classifier, generator)
            /\ nsaves' = IF args.no_save THEN nsaves ELSE nsaves + 1
            /\ io' = IF args.no_save THEN io ELSE io \cup {"write checkpoint"}
       ELSE UNCHANGED <<disk, nsaves, io>>
    /\ calls' = NoCalls
    /\ IF InRange(step + 1, args)
       THEN step' = step + 1 /\ pc' = "loop"
       ELSE step' = step /\ pc' = "final"
    /\ UNCHANGED <<cfg, err, ckpt_reads, dsvars, init_step, loaded, soft, epoch,
                   warm_calls, soft_hist, table_writes, batch>>

\* Lines 525-532: the checkpoint after the loop.
FinalSave ==
    /\ pc = "final"
    /\ disk' = save_model(disk, args, model_state,
                          SaveVariableList(args, step, current_learning_rate,
                                           warm_up_steps),
                          classifier, generator)
    /\ nsaves' = IF args.no_save THEN nsaves ELSE nsaves + 1
    /\ io' = IF args.no_save THEN io
             ELSE io \cup {"write checkpoint", "write final checkpoint"}
    /\ pc' = "valid"
    /\ UNCHANGED <<cfg, err, ckpt_reads, mem>>

\* -------------------------------------------------------- evaluation
\* Lines 534-537.
Valid ==
    /\ pc = "valid"
    /\ pc' = "test"
    /\ UNCHANGED <<cfg, err, files, mem>>

\* Lines 539-601: with a method set, the weights are refreshed (soft) and
\* read back as scores.
Test ==
    /\ pc = "test"
    /\ IF args.do_test /\ args.method # None
       THEN IF classifier = None \/ ~clf_iterator
            THEN Terminate("AttributeError")
            ELSE /\ \E conf \in Confidences :
                      tables' = [tables EXCEPT
                                   ![TrainTable] = find_topK_triples(@, TRUE, conf)]
                 /\ table_writes' = table_writes \cup {[by |-> "main", phase |-> pc]}
                 /\ pc' = "end"
                 /\ UNCHANGED <<err, train_triples, fake_triples, all_true_triples,
                                ds, classifier, generator, clf_iterator, trainvars,
                                loopvars, batch>>
       ELSE pc' = "end" /\ UNCHANGED <<err, mem>>
    /\ UNCHANGED <<cfg, files>>

\* main returns.
Exit ==
    /\ pc = "end"
    /\ Terminate("none")
    /\ UNCHANGED <<cfg, files>>

\* ------------------------------------------------------- environment
\* The run is interrupted from outside (or a step raises).
Interrupt ==
    /\ Running
    /\ Terminate("KeyboardInterrupt")
    /\ UNCHANGED <<cfg, files>>

\* The command lines that resume from the directory of a saved run.
ResumeArgs(c) ==
    {[c EXCEPT !.init_checkpoint = "dir"],
     [c EXCEPT !.init_checkpoint = "dir", !.do_test = TRUE],
     [c EXCEPT !.init_checkpoint = "dir", !.do_train = FALSE, !.do_test = TRUE,
               !.data_path = None, !.save_path = None, !.method = None],
     [c EXCEPT !.init_checkpoint = "dir", !.do_train = FALSE, !.do_valid = TRUE,
               !.save_path = None],
     [c EXCEPT !.init_checkpoint = "dir", !.do_train = FALSE],
     [c EXCEPT !.init_checkpoint = "dir", !.save_path = None]}

\* A second run is started on the directory the first one wrote.
Restart ==
    /\ pc = "exited"
    /\ ~restarted
    /\ disk.checkpoint.exists
    /\ args' \in ResumeArgs(disk.config)
    /\ restarted' = TRUE
    /\ pc' = "start" /\ err' = "none"
    /\ io' = {} /\ ckpt_reads' = 0 /\ nsaves' = 0
    /\ UNCHANGED <<data, vocab, disk, mem>>

Next ==
    \/ CheckMode \/ LoadConfig \/ CheckSavePath \/ SetLogger \/ DeclineOverwrite
    \/ LoadData \/ SetupDatasets \/ SetupTraining \/ WarmupStep \/ StartLoop
    \/ DetourRefresh \/ GANStep \/ ClassifierStep \/ TrainBegin \/ TrainEnd
    \/ FinalSave \/ Valid \/ Test \/ Exit \/ Interrupt \/ Restart

Spec == Init /\ [][Next]_vars

\* Runs that nothing stops from outside: the main thread takes its next
\* step whenever it has one.
InitRuns == InitWith(ShortArgs \cup OtherModelArgs, {PlainData})

NextRuns ==
    \/ CheckMode \/ LoadConfig \/ CheckSavePath \/ SetLogger \/ DeclineOverwrite
    \/ LoadData \/ SetupDatasets \/ SetupTraining \/ WarmupStep \/ StartLoop
    \/ DetourRefresh \/ GANStep \/ ClassifierStep \/ TrainBegin \/ TrainEnd
    \/ FinalSave \/ Valid \/ Test \/ Exit \/ Restart

SpecRuns == InitRuns /\ [][NextRuns]_vars /\ WF_vars(NextRuns)

\* ----------------------------------------------- data-loader workers
\* The positive with its head (head-batch) or tail (tail-batch) replaced.
Corrupt(positive, mode, e) ==
    IF mode = "head-batch" THEN <<e, positive[2], positive[3]>>
    ELSE <<positive[1], positive[2], e>>

\* TrainDataset.__getitem__: the ids the rejection sampling can return for a
\* positive, those whose corruption is not in the dataset's true index.
NegativeCandidates(d, positive) ==
    {e \in Entities :
        Corrupt(positive, d.mode, e) \notin
            (IF d.mode = "head-batch" THEN d.true_head ELSE d.true_tail)}

\* Positions of main() at which the loaders' workers are alive.
WorkerPcs == {"warmup", "train_start", "loop", "gan", "clf", "step", "train",
              "final", "valid", "test", "end"}

\* A worker of dataset n's loader samples one item (the triple at some
\* index, with its negatives): it reads the dataset and its index and
\* writes nothing the main thread sees but the item.
WorkerSample(n) ==
    /\ pc \in WorkerPcs
    /\ n \in DOMAIN ds
    /\ \E positive \in Range(ds[n].triples) :
        \E neg \in [1 .. NegativeSampleSize -> NegativeCandidates(ds[n], positive)] :
            batch' = [dataset |-> n, positive |-> positive, negative |-> neg]
    /\ UNCHANGED <<cfg, pc, err, files, dsvars, trainvars, loopvars, table_writes>>

\* Fresh runs, trained for one step and tested.
WorkerArgs ==
    {[BaseArgs EXCEPT !.method = m, !.fake = fk, !.do_test = TRUE, !.no_save = TRUE] :
        m \in Methods, fk \in {None, "1"}}

DatasetNames == {"train_head", "train_tail"} \cup AuxNames

\* The datasets of a fresh run are set up and their workers sample.
InitSample == InitWith(WorkerArgs, {PlainData, MixedData})

NextSample ==
    \/ CheckMode \/ LoadConfig \/ CheckSavePath \/ SetLogger
    \/ LoadData \/ SetupDatasets \/ SetupTraining
    \/ \E n \in DatasetNames : WorkerSample(n)

SpecSample == InitSample /\ [][NextSample]_vars

\* One fresh run, from start to exit, interleaved with its workers.
InitWorkers ==
    InitWith({a \in WorkerArgs : a.fake = None}, {PlainData})

NextWorkers ==
    \/ CheckMode \/ LoadConfig \/ CheckSavePath \/ SetLogger
    \/ LoadData \/ SetupDatasets \/ SetupTraining \/ StartLoop
    \/ DetourRefresh \/ GANStep \/ ClassifierStep \/ TrainBegin \/ TrainEnd
    \/ FinalSave \/ Valid \/ Test \/ Exit \/ Interrupt
    \/ \E n \in DatasetNames : WorkerSample(n)

SpecWorkers == InitWorkers /\ [][NextWorkers]_vars

\* ------------------------------------------------------ vocabulary
\* The characters of a vocabulary file: digits, a letter and the tab.
Tab == "\t"
Digits == {"0", "1"}
Chars == Digits \cup {"a", Tab}

\* The lines a file can hold (without their newline, which strip() drops).
Lines == UNION {[1 .. n -> Chars] : n \in 0 .. MaxLineLen}

\* str.strip(): leading and trailing whitespace is removed.
RECURSIVE strip(_)
strip(line) ==
    IF line = <<>> THEN line
    ELSE IF Head(line) = Tab THEN strip(Tail(line))
    ELSE IF line[Len(line)] = Tab THEN strip(SubSeq(line, 1, Len(line) - 1))
    ELSE line

\* str.split('\t'): the fields between the tabs (one empty field for '').
RECURSIVE split(_)
split(text) ==
    IF \A i \in DOMAIN text : text[i] # Tab THEN <<text>>
    ELSE LET i == CHOOSE j \in DOMAIN text :
                      text[j] = Tab /\ \A k \in 1 .. (j - 1) : text[k] # Tab
         IN  <<SubSeq(text, 1, i - 1)>> \o split(SubSeq(text, i + 1, Len(text)))

\* int(text) succeeds on a non-empty string of digits.
IsInt(text) == text # <<>> /\ \A i \in DOMAIN text : text[i] \in Digits

DigitValue(c) == IF c = "0" THEN 0 ELSE 1

\* int(text), base ten.
RECURSIVE int(_)
int(text) ==
    IF text = <<>> THEN 0
    ELSE 10 * int(SubSeq(text, 1, Len(text) - 1)) + DigitValue(text[Len(text)])

\* Line 228 (234): entity2id[entity] = int(eid).
StoreEntry(d, name, id) ==
    [n \in DOMAIN d \cup {name} |-> IF n = name THEN id ELSE d[n]]

\* Lines 226-228 (232-234 for relations.dict): one line of the file is
\* split into id and name and stored; a line without exactly two fields, or
\* whose id is no integer, raises ValueError.
ReadVocabLine ==
    /\ pc = "vocab"
    /\ nlines < MaxLines
    /\ \E line \in Lines :
         LET fields == split(strip(line))
         IN  IF Len(fields) # 2 \/ ~IsInt(fields[1])
             THEN /\ Terminate("ValueError")
                  /\ entity2id' = <<>> /\ nentity' = 0 /\ nlines' = 0
             ELSE /\ entity2id' = StoreEntry(entity2id, fields[2], int(fields[1]))
                  /\ nlines' = nlines + 1
                  /\ UNCHANGED <<pc, err, mem, nentity>>
    /\ UNCHANGED <<args, data, restarted, files>>

\* The file ends; line 236 (237): nentity = len(entity2id).
EndOfVocab ==
    /\ pc = "vocab"
    /\ nentity' = Cardinality(DOMAIN entity2id)
    /\ pc' = "vocab_done"
    /\ UNCHANGED <<args, data, restarted, entity2id, nlines, err, files, mem>>

\* A vocabulary file is read, from its first line to the end of the file.
InitVocab ==
    /\ args = BaseArgs /\ data = PlainData
    /\ pc = "vocab" /\ err = "none" /\ disk = EmptyDisk /\ restarted = FALSE
    /\ FreshMemory /\ FreshObs /\ NoVocab

NextVocab == ReadVocabLine \/ EndOfVocab

SpecVocab == InitVocab /\ [][NextVocab]_vars

\* ------------------------------------------------------------ claims
LoopPcs == {"loop", "gan", "clf", "step", "train"}
AfterLoadPcs == {"warmup", "train_start", "final", "valid", "test", "end"} \cup LoopPcs

\* C1: in a 'clf' run the loop detours exactly at the step indices s with
\* s mod 10001 = 0: one weight refresh, then 200 GAN steps, then 200
\* classifier steps, then the main step; no other step and no other method
\* detours.
C1_DetourEveryInterval ==
    LET due == args.method = "clf" /\ step % 10001 = 0
        full == [refresh |-> 1, gan |-> 200, clf |-> 200]
    IN  /\ pc = "loop" => calls = NoCalls
        /\ pc = "gan" => due /\ epoch < 200
                             /\ calls = [refresh |-> 1, gan |-> epoch, clf |-> 0]
        /\ pc = "clf" => due /\ epoch < 200
                             /\ calls = [refresh |-> 1, gan |-> 200, clf |-> epoch]
        /\ pc = "step" => due /\ calls = full
        /\ pc = "train" => calls = (IF due THEN full ELSE NoCalls)
        /\ (pc \in {"gan", "clf", "step", "train"} /\ args.method = "clf")
              => Len(soft_hist) = (step \div 10001) + 1
        /\ args.method # "clf" => soft_hist = <<>> /\ calls = NoCalls

C1_Witness ==
    /\ pc = "train" /\ step = 10001 /\ args.method = "clf"
    /\ calls = [refresh |-> 1, gan |-> 200, clf |-> 200]

\* C2: the classifier warm-up (1200 classifier steps) runs exactly in a
\* training run with method 'clf' that resumes from a checkpoint; it is over
\* before the first detour and the first main step, and never runs again.
C2_WarmupOnlyOnResume ==
    LET due == args.do_train /\ args.method = "clf" /\ args.init_checkpoint # None
    IN  /\ warm_calls <= 1200
        /\ warm_calls > 0 => due
        /\ pc = "warmup" => /\ due /\ warm_calls = epoch /\ epoch < 1200
                            /\ main_steps = 0 /\ calls = NoCalls /\ soft_hist = <<>>
        /\ pc \in (AfterLoadPcs \ {"warmup"}) => warm_calls = (IF due THEN 1200 ELSE 0)

C2_Witness == pc = "train" /\ warm_calls = 1200 /\ main_steps = 0

\* C3: the soft flag passed to find_topK_triples at the i-th refresh of a
\* run is TRUE when num = 1, FALSE when num = 1000, and otherwise alternates
\* starting with TRUE, so that consecutive refreshes differ.
C3_SoftFlagSchedule ==
    /\ \A i \in DOMAIN soft_hist :
          soft_hist[i] = (IF args.num = 1 THEN TRUE
                          ELSE IF args.num = 1000 THEN FALSE
                          ELSE i % 2 = 1)
    /\ args.num \notin {1, 1000} =>
          \A i \in DOMAIN soft_hist :
              (i + 1) \in DOMAIN soft_hist => soft_hist[i] # soft_hist[i + 1]

C3_Witness == args.num = 2 /\ soft_hist = <<TRUE, FALSE>> /\ pc = "train"

MultiplesBelow(n, k) == (n + k - 1) \div k

C5_State ==
    LET saving == args.do_train /\ ~args.no_save
        scs == args.save_checkpoint_steps
        done == IF main_steps = 0 THEN 0 ELSE step + 1
        ck == disk.checkpoint
        current == /\ ck.current_learning_rate = current_learning_rate
                   /\ ck.warm_up_steps = warm_up_steps
                   /\ ck.model_state_dict = model_state
                   /\ ck.has_confidence = (args.method # None)
                   /\ ck.has_confidence => ck.confidence = tables[TrainTable]
    IN  /\ ckpt_reads <= 1
        /\ ckpt_reads = 1 <=> "read checkpoint" \in io
        /\ ckpt_reads = 1 => args.init_checkpoint # None
        /\ pc \in AfterLoadPcs =>
              ckpt_reads = (IF args.init_checkpoint # None THEN 1 ELSE 0)
        /\ (pc \in LoopPcs \cup {"warmup", "train_start", "final"})
              => "write final checkpoint" \notin io
        /\ (saving /\ pc \in LoopPcs) => nsaves = MultiplesBelow(step, scs)
        /\ (saving /\ pc = "final") => nsaves = MultiplesBelow(done, scs)
        /\ (saving /\ pc \in {"valid", "test", "end"})
              => /\ nsaves = MultiplesBelow(done, scs) + 1
                 /\ "write final checkpoint" \in io
        /\ (saving /\ pc = "valid") => ck.exists /\ ck.step = step /\ current
        /\ (saving /\ pc = "loop" /\ step > 0 /\ (step - 1) % scs = 0)
              => ck.exists /\ ck.step = step - 1 /\ current
        /\ (args.do_train /\ args.no_save) => nsaves = 0 /\ "write checkpoint" \notin io

\* C5: without no_save a checkpoint is written after the main step of every
\* step index s with s mod save_checkpoint_steps = 0 and once more after the
\* loop has completed; a run cut short inside the loop never writes the
\* final checkpoint; the checkpoint file is read at most once, at start-up,
\* and only when init_checkpoint is given; a written checkpoint holds the
\* step, the learning rate and the warm-up threshold of that moment, and the
\* weight table exactly when a method is set.
C5_CheckpointCadence ==
    /\ []C5_State
    /\ [][(pc \in LoopPcs \cup {"warmup", "train_start"} /\ pc' = "exited")
             => "write final checkpoint" \notin io']_vars

C5_Witness ==
    /\ pc = "valid" /\ nsaves = 3 /\ args.save_checkpoint_steps = 2
    /\ disk.checkpoint.has_confidence /\ disk.checkpoint.step = 2

\* C6: every dataset references the weight table of the head-corruption
\* training dataset, so each reads the value any of them was last given.
C6_SharedWeightTable ==
    \A n \in DOMAIN ds :
        /\ ds[n].subsampling_weights = ds["train_head"].subsampling_weights
        /\ \A t \in DOMAIN tables[TrainTable] :
              tables[ds[n].subsampling_weights][t] = tables[TrainTable][t]

C6_Witness ==
    /\ DOMAIN ds = DatasetNames
    /\ table_writes # {}
    /\ \E t \in DOMAIN tables[TrainTable] : tables[TrainTable][t] # 100

Corrupted ==
    {Corrupt(batch.positive, ds[batch.dataset].mode, batch.negative[i]) :
        i \in DOMAIN batch.negative}

\* C8 as stated: no corrupted triple of a sampled item is a true triple of
\* train, valid or test.
C8_AvoidsAllTrueTriples ==
    batch.dataset # None => Corrupted \cap Range(all_true_triples) = {}

\* C8 as amended: no corrupted triple of an item sampled by the training,
\* clf or gen datasets is a triple of the training set (train file plus
\* injected fake triples).
C8_AvoidsTrainingTriples ==
    batch.dataset # None => Corrupted \cap Range(train_triples) = {}

C8_Witness ==
    /\ batch.dataset \in AuxNames
    /\ batch.positive \in Range(data.train)
    /\ Corrupted \cap Range(data.valid) # {}

\* C9: the weight table is written by the main thread only, at the refresh
\* of a detour or at test time, never while a main training step is in
\* progress and never by a step of a worker.
C9_WritesOnlyBetweenSteps ==
    /\ [](\A w \in table_writes : w.by = "main" /\ w.phase \in {"loop", "test"})
    /\ [][(DOMAIN ds # {} /\ DOMAIN ds' # {} /\ tables' # tables)
             => (pc \in {"loop", "test"} /\ batch' = batch)]_vars

C9_Witness ==
    /\ pc = "train" /\ batch.dataset = "train_tail"
    /\ [by |-> "main", phase |-> "loop"] \in table_writes

\* C10: with none of the mode flags selected the run ends with the mode
\* error before any file or directory is read, created or written.
C10_NoModeNoIO ==
    ((~args.do_train) /\ (~args.do_valid) /\ (~args.do_test))
       => /\ pc \in {"start", "exited"}
          /\ io = {}
          /\ pc = "exited" => err \in {"ValueError: mode", "KeyboardInterrupt"}

C10_Witness ==
    /\ pc = "exited" /\ err = "ValueError: mode"
    /\ args.init_checkpoint # None /\ disk.checkpoint.exists

\* C11: with a mode flag selected, a run with neither a checkpoint path nor a
\* data path ends with the data-path configuration error, and a training run
\* without a save path ends with the save-path configuration error, also when
\* it resumes from a saved checkpoint directory; in both cases the run has
\* created no directory and no log file and has read no vocabulary or triple
\* file (the only file read is the config.json of the checkpoint).
C11_ConfigErrors ==
    /\ (pc = "exited" /\ err = "ValueError: data_path") => io = {}
    /\ (pc = "exited" /\ err = "ValueError: save_path") =>
            io \subseteq {"read config.json"}
    /\ (~NoModeSelected(args) /\ args.init_checkpoint = None /\ args.data_path = None)
        => \/ pc \in {"start", "config"}
           \/ pc = "exited" /\ err \in {"ValueError: data_path", "KeyboardInterrupt"}
    /\ (~NoModeSelected(args) /\ args.do_train /\ args.save_path = None)
        => \/ pc \in {"start", "config", "savecheck"}
           \/ pc = "exited" /\ err \in {"ValueError: save_path", "KeyboardInterrupt"}
           \/ pc = "exited" /\ err = "ValueError: data_path"
                /\ args.init_checkpoint = None /\ args.data_path = None
           \/ pc = "exited" /\ err = "FileNotFoundError"
                /\ args.init_checkpoint # None /\ ~disk.has_config

C11_Witness ==
    /\ pc = "exited" /\ err = "ValueError: save_path"
    /\ args.init_checkpoint # None /\ disk.checkpoint.exists
    /\ io = {"read config.json"}

\* C12: once a vocabulary file has been read without error, the loaded
\* mapping is a bijection onto [0, nentity): every loaded id lies in the range
\* and every id of the range belongs to exactly one name.
C12_VocabularyBijection ==
    pc = "vocab_done" =>
        /\ \A n \in DOMAIN entity2id : entity2id[n] \in 0 .. (nentity - 1)
        /\ \A i \in 0 .. (nentity - 1) :
             Cardinality({n \in DOMAIN entity2id : entity2id[n] = i}) = 1

\* The main steps a training run has to make.
StepsToDo == IF args.max_steps > init_step THEN args.max_steps - init_step ELSE 0

C13_State ==
    /\ pc \in LoopPcs =>
          /\ init_step <= step /\ step < args.max_steps
          /\ main_steps = step - init_step
    /\ (pc \in {"final", "valid", "test", "end"} /\ args.do_train) =>
          main_steps = StepsToDo
    /\ (pc \in {"valid", "test", "end"} /\ args.do_train /\ ~args.no_save) =>
          /\ "write final checkpoint" \in io
          /\ disk.checkpoint.step = init_step + StepsToDo - (IF StepsToDo > 0 THEN 1 ELSE 0)
    /\ (pc \in LoopPcs \cup {"warmup", "train_start", "final"}) =>
          "write final checkpoint" \notin io

C13_Step ==
    (pc' # "exited" /\ (main_steps' # main_steps \/ step' # step)) =>
        \/ pc = "train" /\ main_steps' = main_steps + 1 /\ step' \in {step, step + 1}
             /\ (step' = step => pc' = "final")
        \/ pc \in {"trainconf", "train_start"} /\ main_steps' = main_steps
             /\ step' = init_step'

RECURSIVE DecaysUpTo(_, _)
DecaysUpTo(w, s) == IF w > s THEN 0 ELSE 1 + DecaysUpTo(3 * w, s)

\* s is one of w, 3w, 9w, ..., for a positive w.
RECURSIVE IsDecayStep(_, _)
IsDecayStep(w, s) == IF w > s THEN FALSE ELSE w = s \/ IsDecayStep(3 * w, s)

RECURSIVE PowerOf(_, _)
PowerOf(b, k) == IF k = 0 THEN 1 ELSE b * PowerOf(b, k - 1)

\* A fresh training run, past its set-up.
FreshTraining ==
    /\ args.do_train /\ args.init_checkpoint = None
    /\ pc \in LoopPcs \cup {"train_start", "final", "valid", "test", "end"}

\* The threshold the run starts with: W, or max_steps when W is missing or 0.
Threshold ==
    IF args.warm_up_steps # NoneInt /\ args.warm_up_steps # 0
    THEN args.warm_up_steps ELSE args.max_steps

C14_State ==
    (FreshTraining /\ Threshold > 0) =>
        LET k == IF main_steps = 0 THEN 0 ELSE DecaysUpTo(Threshold, main_steps - 1)
        IN  /\ current_learning_rate = args.learning_rate \div PowerOf(10, k)
            /\ warm_up_steps = Threshold * PowerOf(3, k)
            /\ (args.warm_up_steps = NoneInt \/ args.warm_up_steps = 0) =>
                   current_learning_rate = args.learning_rate

C14_Step ==
    (FreshTraining /\ pc' # "exited") =>
        IF pc = "train" /\ Threshold > 0 /\ IsDecayStep(Threshold, step)
        THEN /\ current_learning_rate' = current_learning_rate \div 10
             /\ warm_up_steps' = 3 * warm_up_steps
        ELSE UNCHANGED <<current_learning_rate, warm_up_steps>>

\* C14: in a fresh training run with initial rate L and positive threshold W,
\* the rate is divided by 10 and the threshold tripled in the main steps
\* s = W, 3W, 9W, ... below max_steps and in no other step, once per step, so
\* that after main step s the rate is L / 10^k with k the number of i >= 0
\* with W * 3^i <= s; when warm_up_steps is missing or 0 the threshold is
\* max_steps and the rate stays L.
C14_LearningRateSchedule == []C14_State /\ [][C14_Step]_vars

C14_Witness ==
    /\ FreshTraining /\ pc = "final" /\ args.warm_up_steps = 1
    /\ main_steps = 10 /\ current_learning_rate = 1000 /\ warm_up_steps = 27

\* The main thread is about to use the classifier and the clf/gen iterators:
\* the warm-up, the detour and its sub-loops, and the refresh of the test.
UsesClassifier ==
    \/ pc \in {"warmup", "gan", "clf"}
    \/ pc = "loop" /\ RefreshDue
    \/ pc = "test" /\ args.do_test /\ args.method # None

\* C15: whenever a run is about to use the classifier or the clf/gen
\* iterators, they have been constructed in this run: the classifier is not
\* None and the iterators exist.
C15_ConstructedBeforeUse ==
    UsesClassifier => (classifier # None /\ clf_iterator)

====
